---- MODULE Spec2Model ----
(***************************************************************************)
(* mikroeuhb/devkit.py: the instruction encoder, the Flash block model     *)
(* (DevKitModel / ARMDevKit / STM32DevKit), the bootloader fix, the        *)
(* transfer driver and the devkit factory.                                 *)
(*                                                                         *)
(* Characters are their code points (ord), strings are sequences of code   *)
(* points, bytestrings are sequences of 0..255.  A bytearray block is the  *)
(* record [len, fill, ov]: its length, the byte it was filled with when it *)
(* was created, and the bytes that differ from the fill (offset -> byte).  *)
(***************************************************************************)
EXTENDS Integers, Sequences, FiniteSets, TLC

VARIABLES
    enc,        \* encode_instruction: the call's arguments and its outcome
    _map,       \* factory's module-level registry: MCU name -> devkit class
    kit,        \* class of the constructed devkit object ("none": no object)
    BootStart,  \* self.BootStart
    EraseBlock, \* self.EraseBlock
    blocks,     \* self.blocks
    dirty,      \* self.dirty
    blockaddr,  \* self.blockaddr
    _ptr,       \* self._ptr
    call,       \* the last call made on the module or the object, and how it ended
    count,      \* calls made on the object so far, by method
    xfer,       \* transfer/_blk_interval: program counter and local variables
    sent        \* what the Device was sent during the current transfer call

vars == <<enc, _map, kit, BootStart, EraseBlock, blocks, dirty, blockaddr,
          _ptr, call, count, xfer, sent>>

kitVars == <<_map, kit, BootStart, EraseBlock, blocks, dirty, blockaddr,
             _ptr, call, count, xfer, sent>>

----------------------------------------------------------------------------
(* Python helpers *)

Min(x, y) == IF x <= y THEN x ELSE y

Max(x, y) == IF x >= y THEN x ELSE y

RECURSIVE Pow2(_)
Pow2(n) == IF n = 0 THEN 1 ELSE 2 * Pow2(n - 1)

\* s[lo:hi] of a Python sequence, 0 <= lo (0-based, hi exclusive, clipped)
Slice(s, lo, hi) ==
    LET l == Min(lo, Len(s))
        h == Max(l, Min(hi, Len(s)))
    IN  [i \in 1..(h - l) |-> s[l + i]]

\* seq[i] with Python's indexing: 0-based, negative i counts from the end.
\* PyValid tells whether the access raises IndexError.
PyValid(s, i) == -Len(s) <= i /\ i < Len(s)

PyAt(s, i) == IF i >= 0 THEN s[i + 1] ELSE s[Len(s) + i + 1]

Range(s) == {s[i] : i \in DOMAIN s}

----------------------------------------------------------------------------
(* encode_instruction *)

ord_0 == 48

ord_1 == 49

ord_a == 97

ord_z == 122

None == <<>>

Some(v) == <<v>>

\* bin(n)[2:] for n >= 0, as a string of '0'/'1'
RECURSIVE bin(_)
bin(n) ==
    IF n < 2 THEN <<ord_0 + n>>
    ELSE Append(bin(n \div 2), ord_0 + (n % 2))

\* the padding put behind the string instead of before it (ljust)
rjust_behind(s, width, fillchar) ==
    IF Len(s) >= width THEN s
    ELSE s \o [i \in 1..(width - Len(s)) |-> fillchar]

\* s.rjust(width, fillchar)
rjust(s, width, fillchar) ==
    IF Len(s) >= width THEN s
    ELSE [i \in 1..(width - Len(s)) |-> fillchar] \o s

\* util.maketrans(frm, to): the translation table, character of frm at
\* position i -> character of to at position i.
maketrans(frm, to) ==
    [c \in {frm[i] : i \in 1..Min(Len(frm), Len(to))} |->
        to[CHOOSE i \in 1..Min(Len(frm), Len(to)) : frm[i] = c]]

\* s.translate(table)
translate(s, table) ==
    [i \in DOMAIN s |-> IF s[i] \in DOMAIN table THEN table[s[i]] ELSE s[i]]

\* Integers of 32 bits and more are kept as their 16-bit limbs, the least
\* significant first: <<lo, hi>> is lo + 65536 * hi.
Half == 65536

Limbs(n) == <<n % Half, n \div Half>>

Limb(v, i) == IF i \in DOMAIN v THEN v[i] ELSE 0

\* int(s, 2) of a string s of at most 16 '0'/'1'
RECURSIVE int2small(_)
int2small(s) ==
    IF Len(s) = 0 THEN 0
    ELSE 2 * int2small(SubSeq(s, 1, Len(s) - 1)) + (s[Len(s)] - ord_0)

\* int(s, 2) of a string of '0'/'1', in limbs
RECURSIVE int2(_)
int2(s) ==
    IF Len(s) <= 16 THEN <<int2small(s)>>
    ELSE <<int2small(SubSeq(s, Len(s) - 15, Len(s)))>>
            \o int2(SubSeq(s, 1, Len(s) - 16))

\* struct.pack(endianness + code, value) for the standard-size codes B, H, L
\* (nbytes = 1, 2, 4) and the byte orders '<' and '>'; value in limbs
pack(endianness, nbytes, value) ==
    LET le == [i \in 1..nbytes |->
                 (Limb(value, (i + 1) \div 2) \div (IF i % 2 = 1 THEN 1 ELSE 256)) % 256]
    IN  IF endianness = "<" THEN le
        ELSE [i \in 1..nbytes |-> le[nbytes + 1 - i]]

\* struct.unpack(endianness + 'L', b)[0] of 4 bytes, in limbs
unpack(endianness, b) ==
    LET le == IF endianness = "<" THEN b ELSE [i \in DOMAIN b |-> b[Len(b) + 1 - i]]
    IN  <<le[1] + 256 * le[2], le[3] + 256 * le[4]>>

\* the test of line 18 without its "c > z"
BadChars_below(template) ==
    {i \in DOMAIN template :
        /\ template[i] \notin {ord_0, ord_1}
        /\ template[i] < ord_a}

\* The loop of lines 15-20: the first disallowed character raises ValueError,
\* otherwise max_c is the highest letter's position in the alphabet.
BadChars(template) ==
    {i \in DOMAIN template :
        /\ template[i] \notin {ord_0, ord_1}
        /\ (template[i] < ord_a \/ template[i] > ord_z)}

RECURSIVE MaxOver(_)
MaxOver(S) ==
    IF S = {} THEN 0
    ELSE LET x == CHOOSE x \in S : TRUE IN Max(x, MaxOver(S \ {x}))

max_c(template) ==
    MaxOver({template[i] - ord_a + 1 :
                i \in {j \in DOMAIN template : template[j] \notin {ord_0, ord_1}}})

Raise(e) == [ok |-> FALSE, err |-> e, bytes |-> <<>>]

Return(b) == [ok |-> TRUE, err |-> "", bytes |-> b]

\* _map = {8: 'B', 16: 'H', 32: 'L'}
SizeCodes == {8, 16, 32}

encode_instruction(template, field, endianness) ==
    IF BadChars(template) # {} THEN Raise("ValueError")
    ELSE IF max_c(template) # 0 /\ field = None THEN Raise("ValueError")
    ELSE
        LET k    == max_c(template)
            orig == [i \in 1..k |-> ord_a + (i - 1)]
            fld  == rjust(bin(field[1]), k, ord_0)
            tpl  == IF k # 0 THEN translate(template, maketrans(orig, fld))
                    ELSE template
        IN  IF Len(tpl) = 0 THEN Raise("ValueError")
            ELSE IF Len(tpl) \notin SizeCodes THEN Raise("KeyError")
            ELSE Return(pack(endianness, Len(tpl) \div 8, int2(tpl)))

----------------------------------------------------------------------------
(* bytearray blocks *)

\* size of a USB HID packet (device.HID_buf_size)
HID_buf_size == 64

NoBytes == [i \in {} |-> 0]

\* bytearray(fillbyte * size)
bytearray(fillbyte, size) == [len |-> size, fill |-> fillbyte, ov |-> NoBytes]

\* b[i], 0 <= i < len(b)
ByteAt(b, i) == IF i \in DOMAIN b.ov THEN b.ov[i] ELSE b.fill

\* b[lo:hi] as a bytestring
BSlice(b, lo, hi) ==
    LET l == Min(lo, b.len)
        h == Max(l, Min(hi, b.len))
    IN  [i \in 1..(h - l) |-> ByteAt(b, l + i - 1)]

\* b[lo:hi] = d for 0 <= lo <= hi: the slice is replaced by d, and the bytes
\* behind it move when len(d) differs from the slice's length.
SliceAssign(b, lo, hi, d) ==
    LET l      == Min(lo, b.len)
        h      == Max(l, Min(hi, b.len))
        shift  == Len(d) - (h - l)
        newlen == b.len + shift
        at(i)  == IF i < l THEN ByteAt(b, i)
                  ELSE IF i < l + Len(d) THEN d[i - l + 1]
                  ELSE ByteAt(b, i - shift)
        cand   == {i \in DOMAIN b.ov : i < l}
                    \cup {i + shift : i \in {j \in DOMAIN b.ov : j >= h}}
                    \cup {l + i - 1 : i \in 1..Len(d)}
    IN  [len  |-> newlen,
         fill |-> b.fill,
         ov   |-> [i \in {j \in cand : at(j) # b.fill} |-> at(i)]]

RECURSIVE SumLen(_)
SumLen(bs) == IF Len(bs) = 0 THEN 0 ELSE bs[1].len + SumLen(Tail(bs))

----------------------------------------------------------------------------
(* DevKitModel, ARMDevKit, STM32DevKit: construction *)

Classes == {"DevKitModel", "ARMDevKit", "STM32DevKit"}

\* the classes that inherit ARMDevKit.fix_bootloader
ARMClasses == {"ARMDevKit", "STM32DevKit"}

\* cls._supported of the classes that declare or inherit it
_supported(cls) ==
    CASE cls = "ARMDevKit"   -> {"ARM", "STELLARIS_M3", "STELLARIS_M4", "STELLARIS"}
      [] cls = "STM32DevKit" -> {"STM32L1XX", "STM32F1XX", "STM32F2XX", "STM32F4XX"}
      [] OTHER               -> {}

flash_mem_offset(cls) == IF cls = "STM32DevKit" THEN 134217728 ELSE 0

\* the erased state a block is created in
block_init == 255

KiB == 1024

\* the sizes with a seventh 128 KiB block
STM32Sizes_seven ==
    [i \in 1..4 |-> 16 * KiB] \o <<64 * KiB>> \o [i \in 1..7 |-> 128 * KiB]

\* STM32DevKit._init_blocks: the sizes block() is called with, in order
STM32Sizes ==
    [i \in 1..4 |-> 16 * KiB] \o <<64 * KiB>> \o [i \in 1..6 |-> 128 * KiB]

STM32numblocks == 11

\* _init_blocks: [err, dirty, blocks]
_init_blocks(cls, bootStart, eraseBlock) ==
    IF cls = "STM32DevKit" THEN
        LET bl == [i \in DOMAIN STM32Sizes |-> bytearray(block_init, STM32Sizes[i])]
        IN  IF Len(bl) # STM32numblocks \/ SumLen(bl) # bootStart
            THEN [err |-> "AssertionError", dirty |-> <<>>, blocks |-> <<>>]
            ELSE [err |-> "", dirty |-> [i \in 1..STM32numblocks |-> FALSE],
                  blocks |-> bl]
    ELSE IF eraseBlock = 0
        THEN [err |-> "ZeroDivisionError", dirty |-> <<>>, blocks |-> <<>>]
    ELSE
        LET numblocks == bootStart \div eraseBlock
        IN  [err |-> "", dirty |-> [i \in 1..numblocks |-> FALSE],
             blocks |-> [i \in 1..numblocks |-> bytearray(block_init, eraseBlock)]]

\* _init_blockaddr: [0, len(b1), len(b1)+len(b2), ...]
RECURSIVE _init_blockaddr(_)
_init_blockaddr(bl) ==
    IF Len(bl) = 0 THEN <<0>>
    ELSE LET pre == _init_blockaddr(SubSeq(bl, 1, Len(bl) - 1))
         IN  Append(pre, pre[Len(pre)] + bl[Len(bl)].len)

\* cls(bootinfo): [err, obj]
NoObj == [blocks |-> <<>>, dirty |-> <<>>, blockaddr |-> <<>>, ptr |-> 0]

__init__(cls, bootinfo) ==
    IF bootinfo.EraseBlock % HID_buf_size # 0
    THEN [err |-> "AssertionError", obj |-> NoObj]
    ELSE
        LET ib == _init_blocks(cls, bootinfo.BootStart, bootinfo.EraseBlock)
        IN  IF ib.err # "" THEN [err |-> ib.err, obj |-> NoObj]
            ELSE [err |-> "",
                  obj |-> [blocks |-> ib.blocks, dirty |-> ib.dirty,
                           blockaddr |-> _init_blockaddr(ib.blocks), ptr |-> 0]]

\* factory's registry once built: every MCU of every class with _supported
BuiltMap ==
    [mcu \in UNION {_supported(c) : c \in Classes} |->
        CHOOSE c \in Classes : mcu \in _supported(c)]

\* "a mcu cannot be supported by two different classes"
NoDoubleSupport ==
    \A c1, c2 \in Classes : c1 # c2 => _supported(c1) \cap _supported(c2) = {}

----------------------------------------------------------------------------
(* DevKitModel._write_phy and write.  An object o is the record            *)
(* [blocks, dirty, blockaddr, ptr]; the operators return [err, obj], obj   *)
(* being the object as the call left it, also when it raised.              *)

\* lines 92-103: the block search from blk; [ok, blk], ok FALSE when an index
\* leaves the lists (IndexError)
\* lines 92-103 searching upwards only: an address below the block fails
RECURSIVE FindBlock_up(_, _, _)
FindBlock_up(o, blk, addr) ==
    IF ~PyValid(o.blockaddr, blk) \/ ~PyValid(o.blocks, blk)
    THEN [ok |-> FALSE, blk |-> blk]
    ELSE
        LET start_addr == PyAt(o.blockaddr, blk)
            end_addr   == start_addr + PyAt(o.blocks, blk).len
        IN  IF addr >= end_addr THEN FindBlock_up(o, blk + 1, addr)
            ELSE IF addr < start_addr THEN [ok |-> FALSE, blk |-> blk]
            ELSE [ok |-> TRUE, blk |-> blk]

RECURSIVE FindBlock(_, _, _)
FindBlock(o, blk, addr) ==
    IF ~PyValid(o.blockaddr, blk) \/ ~PyValid(o.blocks, blk)
    THEN [ok |-> FALSE, blk |-> blk]
    ELSE
        LET start_addr == PyAt(o.blockaddr, blk)
            end_addr   == start_addr + PyAt(o.blocks, blk).len
        IN  IF addr >= end_addr THEN FindBlock(o, blk + 1, addr)
            ELSE IF addr < start_addr THEN FindBlock(o, blk - 1, addr)
            ELSE [ok |-> TRUE, blk |-> blk]

\* line 107 counting the byte at end_addr in
write_len_past(end_addr, addr, data) == Min(end_addr - addr + 1, Len(data))

\* line 107
write_len(end_addr, addr, data) == Min(end_addr - addr, Len(data))

\* the 1-based position a Python index names in a list of n elements
Pos(n, i) == IF i >= 0 THEN i + 1 ELSE n + i + 1

\* lines 104-109 without the slice assignment of line 109
WriteBlock_unwritten(o, blk, addr, data) ==
    [o EXCEPT !.ptr = blk, !.dirty[Pos(Len(o.blocks), blk)] = TRUE]

\* lines 104-109: the block found is marked and takes its part of the data
WriteBlock(o, blk, addr, data) ==
    LET start_addr == PyAt(o.blockaddr, blk)
        end_addr   == start_addr + PyAt(o.blocks, blk).len
        wlen       == write_len(end_addr, addr, data)
        write_off  == addr - start_addr
        p          == Pos(Len(o.blocks), blk)
    IN  [o EXCEPT !.ptr = blk,
                  !.dirty[p] = TRUE,
                  !.blocks[p] = SliceAssign(@, write_off, write_off + wlen,
                                            Slice(data, 0, wlen))]

\* the IndexError of line 97 swallowed: the call returns
RECURSIVE _write_phy_quiet(_, _, _)
_write_phy_quiet(o, addr, data) ==
    LET f == FindBlock(o, o.ptr, addr)
    IN  IF ~f.ok THEN [err |-> "", obj |-> o]
        ELSE
            LET start_addr == PyAt(o.blockaddr, f.blk)
                end_addr   == start_addr + PyAt(o.blocks, f.blk).len
                wlen       == write_len(end_addr, addr, data)
                o1         == WriteBlock(o, f.blk, addr, data)
                rest       == Slice(data, wlen, Len(data))
            IN  IF Len(rest) # 0 THEN _write_phy_quiet(o1, addr + wlen, rest)
                ELSE [err |-> "", obj |-> o1]

RECURSIVE _write_phy(_, _, _)
_write_phy(o, addr, data) ==
    LET f == FindBlock(o, o.ptr, addr)
    IN  IF ~f.ok THEN [err |-> "IndexError", obj |-> o]
        ELSE
            LET start_addr == PyAt(o.blockaddr, f.blk)
                end_addr   == start_addr + PyAt(o.blocks, f.blk).len
                wlen       == write_len(end_addr, addr, data)
                o1         == WriteBlock(o, f.blk, addr, data)
                rest       == Slice(data, wlen, Len(data))
            IN  IF Len(rest) # 0 THEN _write_phy(o1, addr + wlen, rest)
                ELSE [err |-> "", obj |-> o1]

\* write refusing, before it copies anything, data that does not end within
\* the blocks
write_checked(cls, o, addr, data) ==
    IF addr - flash_mem_offset(cls) + Len(data) > o.blockaddr[Len(o.blockaddr)]
    THEN [err |-> "IndexError", obj |-> o]
    ELSE _write_phy(o, addr - flash_mem_offset(cls), data)

write(cls, o, addr, data) == _write_phy(o, addr - flash_mem_offset(cls), data)

----------------------------------------------------------------------------
(* ARMDevKit.fix_bootloader *)

Letters ==
    <<"a", "b", "c", "d", "e", "f", "g", "h", "i", "j", "k", "l", "m",
      "n", "o", "p", "q", "r", "s", "t", "u", "v", "w", "x", "y", "z">>

\* ord(c) of a one-character string holding '0', '1' or a lowercase letter
ord(c) ==
    IF c = "0" THEN ord_0
    ELSE IF c = "1" THEN ord_1
    ELSE ord_a + (CHOOSE i \in DOMAIN Letters : Letters[i] = c) - 1

Str(chars) == [i \in DOMAIN chars |-> ord(chars[i])]

\* '0fgh0000ijklmnop11110e100100abcd': movw r0, #imm16
movw_r0 ==
    Str(<<"0", "f", "g", "h", "0", "0", "0", "0",
          "i", "j", "k", "l", "m", "n", "o", "p",
          "1", "1", "1", "1", "0", "e", "1", "0",
          "0", "1", "0", "0", "a", "b", "c", "d">>)

\* '0fgh0000ijklmnop11110e101100abcd': movt r0, #imm16
movt_r0 ==
    Str(<<"0", "f", "g", "h", "0", "0", "0", "0",
          "i", "j", "k", "l", "m", "n", "o", "p",
          "1", "1", "1", "1", "0", "e", "1", "0",
          "1", "1", "0", "0", "a", "b", "c", "d">>)

\* '0100011010000101': mov sp, r0
mov_sp_r0 ==
    Str(<<"0", "1", "0", "0", "0", "1", "1", "0",
          "1", "0", "0", "0", "0", "1", "0", "1">>)

\* '0100011100000000': bx r0
bx_r0 ==
    Str(<<"0", "1", "0", "0", "0", "1", "1", "1",
          "0", "0", "0", "0", "0", "0", "0", "0">>)

\* load_r0(value): movw r0, #(value & 0xffff); movt r0, #((value >> 16) & 0xffff)
load_r0(value) ==
    encode_instruction(movw_r0, Some(value[1]), "<").bytes
        \o encode_instruction(movt_r0, Some(value[2]), "<").bytes

\* x | 1
Or1(x) == IF x % 2 = 1 THEN x ELSE x + 1

\* lines 198-200 left out: the reset address as staged
thumb_asis(resetaddr) == resetaddr

\* lines 198-200: the reset address the stub jumps to
thumb(resetaddr) ==
    IF resetaddr[1] % 2 # 1 THEN [resetaddr EXCEPT ![1] = Or1(@)] ELSE resetaddr

\* lines 216-221
program(stackp, resetaddr) ==
    load_r0(stackp)
        \o encode_instruction(mov_sp_r0, None, "<").bytes
        \o load_r0(resetaddr)
        \o encode_instruction(bx_r0, None, "<").bytes

ProgramLen == 20

\* line 202 without the Thumb mark
new_vector_even(bootStart) == pack("<", 4, Limbs(bootStart))

\* line 202: the reset vector now points to the bootloader
new_vector(bootStart) == pack("<", 4, Limbs(Or1(bootStart)))

fix_bootloader(cls, o, bootStart) ==
    IF cls \notin ARMClasses THEN [err |-> "", obj |-> o]
    ELSE IF ~PyValid(o.blocks, 0) THEN [err |-> "IndexError", obj |-> o]
    ELSE IF Len(BSlice(o.blocks[1], 0, 8)) # 8 THEN [err |-> "struct.error", obj |-> o]
    ELSE
        LET first_block == o.blocks[1]
            stackp      == unpack("<", BSlice(first_block, 0, 4))
            resetaddr   == thumb(unpack("<", BSlice(first_block, 4, 8)))
            o1          == [o EXCEPT !.blocks[1] =
                                SliceAssign(@, 4, 8, new_vector(bootStart))]
            prog        == program(stackp, resetaddr)
        IN  IF Len(prog) # ProgramLen THEN [err |-> "AssertionError", obj |-> o1]
            ELSE _write_phy(o1, bootStart - Len(prog), prog)

----------------------------------------------------------------------------
(* DevKitModel.transfer and _blk_interval: helpers *)

_write_max == 32768

\* _erase_addr(blk)
_erase_addr(o, blk) == PyAt(o.blockaddr, blk)

\* b[lo:hi] of a block, kept as a block record (a bytearray slice)
BASlice(b, lo, hi) ==
    LET l == Min(lo, b.len)
        h == Max(l, Min(hi, b.len))
    IN  [len  |-> h - l,
         fill |-> b.fill,
         ov   |-> [i \in {j - l : j \in {k \in DOMAIN b.ov : l <= k /\ k < h}}
                      |-> b.ov[i + l]]]

\* Command.from_attr(cmd, addr, n), and a data packet
Command(cmd, addr, n) ==
    [kind |-> "command", cmd |-> cmd, addr |-> addr, count |-> n,
     pkt |-> bytearray(0, 0)]

Packet(pkt) ==
    [kind |-> "data", cmd |-> "", addr |-> 0, count |-> 0, pkt |-> pkt]

\* what dev.recv() may return: an acknowledgement of either command
Responses == {"ERASE", "WRITE"}

\* pc and the locals of transfer and _blk_interval; calls: the calls of
\* _blk_interval made; acks: what dev.recv() returned, with the command
\* expected and the number of messages sent before; round: the transfer
\* calls made on the object; prev: what the call before sent
XferIdle ==
    [pc |-> "idle", blk |-> 0, inside |-> FALSE, start |-> 0, end |-> 0,
     iblk |-> 0, blk_off |-> 0, i |-> 0, dev_buf_rem |-> 0, calls |-> <<>>,
     acks |-> <<>>, round |-> 0, prev |-> <<>>]

Obj == [blocks |-> blocks, dirty |-> dirty, blockaddr |-> blockaddr, ptr |-> _ptr]

\* the bytes transfer would send: the dirty blocks' lengths
RECURSIVE DirtyBytes(_, _)
DirtyBytes(bl, d) ==
    IF Len(bl) = 0 THEN 0
    ELSE (IF d[1] THEN bl[1].len ELSE 0) + DirtyBytes(Tail(bl), Tail(d))

----------------------------------------------------------------------------
(* Bounds and inputs *)

\* write calls made on one devkit object
MaxWrites == 2

\* fix_bootloader calls made on one devkit object
MaxFixes == 1

\* transfer is followed on objects with at most this many dirty bytes
MaxTransferBytes == 16384

BI(mcu, bootStart, eraseBlock) ==
    [McuType |-> mcu, BootStart |-> bootStart, EraseBlock |-> eraseBlock]

\* bootinfo dictionaries handed to factory: five and two erase blocks (the
\* second with Flash left over below BootStart), an EraseBlock that is no
\* multiple of the HID packet size, the STM32 layout with its BootStart and
\* with another one, and an MCU no class supports
FactoryBootInfos ==
    {BI("ARM", 320, 64), BI("STELLARIS_M4", 160, 64), BI("ARM", 192, 32),
     BI("STM32F4XX", 917504, 12288), BI("STM32L1XX", 192, 64),
     BI("PIC18", 192, 64)}

\* bootinfo dictionaries DevKitModel is instantiated with directly
NewBootInfos ==
    {BI("", 128, 64), BI("", 160, 64), BI("", 64, 128), BI("", 128, 0),
     BI("", 0, 64)}

\* n bytes: seed, seed+1, ... (mod 256)
Bytes(n, seed) == [i \in 1..n |-> (seed + i - 1) % 256]

\* data written: nothing, an erased byte, the vectors 0x20001000 and
\* 0x08000100, and two bytes more than the smallest erase block
WriteData ==
    {<<>>, <<255>>, <<0, 16, 0, 32, 0, 1, 0, 8>>, Bytes(HID_buf_size + 2, 1)}

\* addresses written to, physical: below Flash, the vectors, the last byte
\* of the first, the third and the last block, BootStart
WriteAddrs(o, bootStart) ==
    {-1, 0, bootStart}
        \cup {o.blockaddr[i] - 1 : i \in {j \in {2, 4, Len(o.blockaddr)} :
                                            j \in 2..Len(o.blockaddr)}}

----------------------------------------------------------------------------
(* Actions *)

\* op: the function or method called last; bootinfo: the dictionary the kit
\* was asked for; addr, data: the arguments of a write; err: the exception
\* the call raised, "" when it returned
NoCall == [op |-> "", bootinfo |-> BI("", 0, 0), addr |-> 0, data |-> <<>>,
           err |-> ""]

NoEnc == [state |-> "idle", template |-> <<>>, field |-> None,
          endianness |-> "<", result |-> Raise("")]

\* blank: whether a write call's data was empty or held an erased byte (255)
NoCount == [write |-> 0, fix_bootloader |-> 0, blank |-> FALSE]

Init ==
    /\ enc = NoEnc
    /\ _map = [m \in {} |-> ""]
    /\ kit = "none"
    /\ BootStart = 0
    /\ EraseBlock = 0
    /\ blocks = <<>>
    /\ dirty = <<>>
    /\ blockaddr = <<>>
    /\ _ptr = 0
    /\ call = NoCall
    /\ count = NoCount
    /\ xfer = XferIdle
    /\ sent = <<>>

\* the object cls(bootinfo) leaves behind, or none when __init__ raised
Construct(cls, bootinfo, op) ==
    LET r == __init__(cls, bootinfo)
    IN  /\ call' = [NoCall EXCEPT !.op = op, !.bootinfo = bootinfo, !.err = r.err]
        /\ IF r.err = ""
           THEN /\ kit' = cls
                /\ BootStart' = bootinfo.BootStart
                /\ EraseBlock' = bootinfo.EraseBlock
                /\ blocks' = r.obj.blocks
                /\ dirty' = r.obj.dirty
                /\ blockaddr' = r.obj.blockaddr
                /\ _ptr' = r.obj.ptr
           ELSE UNCHANGED <<kit, BootStart, EraseBlock, blocks, dirty, blockaddr, _ptr>>

\* factory(bootinfo).  Line 265 calls NotImplemented, which is no exception
\* class and not callable: what the caller gets is a TypeError.
Factory(bootinfo) ==
    /\ kit = "none"
    /\ _map' = IF DOMAIN _map = {} THEN BuiltMap ELSE _map
    /\ IF bootinfo.McuType \notin DOMAIN _map'
       THEN /\ call' = [NoCall EXCEPT !.op = "factory", !.bootinfo = bootinfo,
                                      !.err = "TypeError"]
            /\ UNCHANGED <<kit, BootStart, EraseBlock, blocks, dirty, blockaddr, _ptr>>
       ELSE Construct(_map'[bootinfo.McuType], bootinfo, "factory")
    /\ UNCHANGED <<enc, count, xfer, sent>>

\* DevKitModel(bootinfo)
New(bootinfo) ==
    /\ kit = "none"
    /\ Construct("DevKitModel", bootinfo, "new")
    /\ UNCHANGED <<enc, _map, count, xfer, sent>>

SetObj(o) ==
    /\ blocks' = o.blocks
    /\ dirty' = o.dirty
    /\ blockaddr' = o.blockaddr
    /\ _ptr' = o.ptr

\* self.write(addr, data)
Write(addr, data) ==
    /\ kit # "none"
    /\ xfer.pc = "idle"
    /\ count.write < MaxWrites
    /\ LET r == write(kit, Obj, addr, data)
       IN  /\ SetObj(r.obj)
           /\ call' = [call EXCEPT !.op = "write", !.addr = addr, !.data = data,
                                   !.err = r.err]
           /\ count' = [count EXCEPT !.write = @ + 1,
                                     !.blank = @ \/ data = <<>> \/ 255 \in Range(data)]
    /\ UNCHANGED <<enc, _map, kit, BootStart, EraseBlock, xfer, sent>>

\* self.fix_bootloader()
FixBootloader ==
    /\ kit # "none"
    /\ xfer.pc = "idle"
    /\ count.fix_bootloader < MaxFixes
    /\ LET r == fix_bootloader(kit, Obj, BootStart)
       IN  /\ SetObj(r.obj)
           /\ call' = [NoCall EXCEPT !.op = "fix_bootloader",
                                     !.bootinfo = call.bootinfo, !.err = r.err]
           /\ count' = [count EXCEPT !.fix_bootloader = @ + 1]
    /\ UNCHANGED <<enc, _map, kit, BootStart, EraseBlock, xfer, sent>>

\* self.transfer(dev) is called
TransferCall ==
    /\ kit # "none"
    /\ xfer.pc = "idle"
    /\ DirtyBytes(blocks, dirty) <= MaxTransferBytes
    /\ xfer' = [XferIdle EXCEPT !.pc = "scan", !.round = 1]
    /\ sent' = <<>>
    /\ call' = [NoCall EXCEPT !.op = "transfer"]
    /\ UNCHANGED <<enc, _map, kit, BootStart, EraseBlock, blocks, dirty, blockaddr,
                   _ptr, count>>

objVars == <<enc, _map, kit, BootStart, EraseBlock, blocks, dirty, blockaddr,
             _ptr, count>>

\* line 176 without "blk == numblocks": a run is closed only by a clean block
RunEnds_clean(d, blk, numblocks) == blk # numblocks /\ ~PyAt(d, blk)

\* line 176: the run being followed ends before blk
RunEnds(d, blk, numblocks) == blk = numblocks \/ ~PyAt(d, blk)

\* lines 174-182: one iteration of "for blk in xrange(numblocks+1)"; the
\* loop's end returns from transfer
ScanStep ==
    /\ xfer.pc = "scan"
    /\ LET numblocks == Len(dirty)
           blk == xfer.blk
       IN  IF blk > numblocks
           THEN xfer' = [xfer EXCEPT !.pc = "done"]
           ELSE IF xfer.inside
           THEN IF RunEnds(dirty, blk, numblocks)
                THEN xfer' = [xfer EXCEPT !.pc = "erase", !.end = blk,
                                          !.calls = Append(@, <<xfer.start, blk>>)]
                ELSE xfer' = [xfer EXCEPT !.blk = blk + 1]
           ELSE IF blk # numblocks /\ PyAt(dirty, blk)
                THEN xfer' = [xfer EXCEPT !.start = blk, !.inside = TRUE,
                                          !.blk = blk + 1]
                ELSE xfer' = [xfer EXCEPT !.blk = blk + 1]
    /\ UNCHANGED <<objVars, call, sent>>

\* lines 139-141
SendErase ==
    /\ xfer.pc = "erase"
    /\ sent' = Append(sent, Command("ERASE", _erase_addr(Obj, xfer.end - 1),
                                    xfer.end - xfer.start))
    /\ xfer' = [xfer EXCEPT !.pc = "erase_ack"]
    /\ UNCHANGED <<objVars, call>>

\* response.expect(cmd) of the device module returns: the response is of
\* the command cmd; it raises otherwise
expect(r, cmd) == r = cmd

\* expect that waits for the next answer when one is not of cmd
Expect_retry(pc, cmd, next) ==
    /\ xfer.pc = pc
    /\ \E r \in Responses :
          LET ack == [got |-> r, want |-> cmd, at |-> Len(sent)]
          IN  IF expect(r, cmd)
              THEN xfer' = [next EXCEPT !.acks = Append(@, ack)]
              ELSE xfer' = [xfer EXCEPT !.acks = Append(@, ack)]
    /\ UNCHANGED <<objVars, sent, call>>

\* dev.recv().expect(cmd) at program counter pc: the call goes on at
\* next when the acknowledgement is of cmd, and raises otherwise
Expect(pc, cmd, next) ==
    /\ xfer.pc = pc
    /\ \E r \in Responses :
          LET ack == [got |-> r, want |-> cmd, at |-> Len(sent)]
          IN  IF expect(r, cmd)
              THEN /\ xfer' = [next EXCEPT !.acks = Append(@, ack)]
                   /\ UNCHANGED call
              ELSE /\ xfer' = [xfer EXCEPT !.pc = "raised", !.acks = Append(@, ack)]
                   /\ call' = [call EXCEPT !.err = "ProtocolMismatch"]
    /\ UNCHANGED <<objVars, sent>>

\* line 142 without expect: whatever the device answers is taken
RecvEraseAck_unchecked ==
    /\ xfer.pc = "erase_ack"
    /\ \E r \in Responses :
          xfer' = [xfer EXCEPT !.pc = "block", !.iblk = xfer.start,
                               !.acks = Append(@, [got |-> r, want |-> "ERASE",
                                                   at |-> Len(sent)])]
    /\ UNCHANGED <<objVars, sent, call>>

\* line 142
RecvEraseAck ==
    Expect("erase_ack", "ERASE", [xfer EXCEPT !.pc = "block", !.iblk = xfer.start])

\* _blk_interval marking the blocks it has sent as clean when its loop ends
BlockStep_clearing ==
    /\ xfer.pc = "block"
    /\ IF xfer.iblk < xfer.end
       THEN /\ xfer' = [xfer EXCEPT !.pc = "chunk", !.blk_off = 0]
            /\ UNCHANGED dirty
       ELSE /\ xfer' = [xfer EXCEPT !.pc = "scan", !.inside = FALSE, !.blk = @ + 1]
            /\ dirty' = [i \in DOMAIN dirty |->
                            dirty[i] /\ ~(xfer.start < i /\ i <= xfer.end)]
    /\ UNCHANGED <<enc, _map, kit, BootStart, EraseBlock, blocks, blockaddr, _ptr,
                   count, call, sent>>

\* line 144: one iteration of "for blk in xrange(start, end)"; the loop's end
\* returns to transfer, line 178
BlockStep ==
    /\ xfer.pc = "block"
    /\ IF xfer.iblk < xfer.end
       THEN xfer' = [xfer EXCEPT !.pc = "chunk", !.blk_off = 0]
       ELSE xfer' = [xfer EXCEPT !.pc = "scan", !.inside = FALSE, !.blk = @ + 1]
    /\ UNCHANGED <<objVars, call, sent>>

\* line 148 without the slice: data = blk_data
ChunkData_whole == PyAt(blocks, xfer.iblk)

\* data = blk_data[blk_off:blk_off+_write_max]
ChunkData == BASlice(PyAt(blocks, xfer.iblk), xfer.blk_off, xfer.blk_off + _write_max)

\* lines 147-153: one iteration of the loop over the block's parts
ChunkStep ==
    /\ xfer.pc = "chunk"
    /\ IF xfer.blk_off < PyAt(blocks, xfer.iblk).len
       THEN /\ sent' = Append(sent, Command("WRITE",
                                  PyAt(blockaddr, xfer.iblk) + xfer.blk_off,
                                  ChunkData.len))
            /\ xfer' = [xfer EXCEPT !.pc = "packet", !.i = 0,
                                    !.dev_buf_rem = EraseBlock]
       ELSE /\ xfer' = [xfer EXCEPT !.pc = "block", !.iblk = @ + 1]
            /\ UNCHANGED sent
    /\ UNCHANGED <<objVars, call>>

\* lines 155-163: one iteration of the loop over the part's packets
PacketStep ==
    /\ xfer.pc = "packet"
    /\ IF xfer.i < ChunkData.len
       THEN LET pkt == BASlice(ChunkData, xfer.i, xfer.i + HID_buf_size)
                rem == xfer.dev_buf_rem - pkt.len
            IN  /\ sent' = Append(sent, Packet(pkt))
                /\ xfer' = IF rem = 0
                           THEN [xfer EXCEPT !.pc = "buf_ack", !.dev_buf_rem = rem]
                           ELSE [xfer EXCEPT !.i = @ + HID_buf_size,
                                             !.dev_buf_rem = rem]
       ELSE /\ xfer' = IF xfer.dev_buf_rem # EraseBlock
                       THEN [xfer EXCEPT !.pc = "end_ack"]
                       ELSE [xfer EXCEPT !.pc = "chunk", !.blk_off = @ + _write_max]
            /\ UNCHANGED sent
    /\ UNCHANGED <<objVars, call>>

\* lines 161-162
RecvBufAck ==
    Expect("buf_ack", "WRITE",
           [xfer EXCEPT !.pc = "packet", !.dev_buf_rem = EraseBlock,
                        !.i = @ + HID_buf_size])

\* line 166
RecvEndAck ==
    Expect("end_ack", "WRITE",
           [xfer EXCEPT !.pc = "chunk", !.blk_off = @ + _write_max])

Next ==
    \/ \E bi \in FactoryBootInfos : Factory(bi)
    \/ \E bi \in NewBootInfos : New(bi)
    \/ \E a \in WriteAddrs(Obj, BootStart), d \in WriteData :
          Write(a + flash_mem_offset(kit), d)
    \/ FixBootloader
    \/ TransferCall
    \/ ScanStep
    \/ SendErase
    \/ RecvEraseAck
    \/ BlockStep
    \/ ChunkStep
    \/ PacketStep
    \/ RecvBufAck
    \/ RecvEndAck

Spec == Init /\ [][Next]_vars

----------------------------------------------------------------------------
(* transfer on its own: a kit from factory, written to twice, is handed to *)
(* transfer, and to transfer again once it has returned                    *)

\* transfer calls made on one devkit object
MaxTransfers == 2

\* bootinfo of the kits: five erase blocks of the HID packet size, and the
\* STM32 layout with a device buffer smaller than a sector, of the size of
\* a part of _write_max bytes, of size 0 and of a negative size
TransferBootInfos ==
    {BI("ARM", 320, 64), BI("STM32F4XX", 917504, 12288),
     BI("STM32F2XX", 917504, 32768), BI("STM32F1XX", 917504, 0),
     BI("STM32L1XX", 917504, -64)}

\* the writes made before transfer, <<physical address, data>>: the vectors,
\* 66 bytes across the end of the first block, a byte at the start of the
\* fifth block
TransferWrites(o) ==
    {<<0, <<0, 16, 0, 32, 0, 1, 0, 8>>>>,
     <<o.blockaddr[2] - 1, Bytes(HID_buf_size + 2, 1)>>,
     <<o.blockaddr[5], <<7>>>>}

\* the state in which transfer is called on factory(bootinfo) after
\* write(w1) and write(w2)
TransferOf(bootinfo, w1, w2) ==
    LET cls == BuiltMap[bootinfo.McuType]
        o0  == __init__(cls, bootinfo).obj
        o1  == _write_phy(o0, w1[1], w1[2]).obj
        o2  == _write_phy(o1, w2[1], w2[2]).obj
    IN  /\ enc = NoEnc
        /\ _map = BuiltMap
        /\ kit = cls
        /\ BootStart = bootinfo.BootStart
        /\ EraseBlock = bootinfo.EraseBlock
        /\ blocks = o2.blocks
        /\ dirty = o2.dirty
        /\ blockaddr = o2.blockaddr
        /\ _ptr = o2.ptr
        /\ call = [NoCall EXCEPT !.op = "transfer"]
        /\ count = [NoCount EXCEPT !.write = 2]
        /\ xfer = [XferIdle EXCEPT !.pc = "scan", !.round = 1]
        /\ sent = <<>>

InitTransfer ==
    \E bootinfo \in TransferBootInfos :
        \E w1, w2 \in TransferWrites(__init__(BuiltMap[bootinfo.McuType], bootinfo).obj) :
            TransferOf(bootinfo, w1, w2)

\* self.transfer(dev) is called again on the object after it returned
TransferAgain ==
    /\ xfer.pc = "done"
    /\ xfer.round < MaxTransfers
    /\ xfer' = [XferIdle EXCEPT !.pc = "scan", !.round = xfer.round + 1,
                                !.prev = sent]
    /\ sent' = <<>>
    /\ call' = [NoCall EXCEPT !.op = "transfer"]
    /\ UNCHANGED objVars

NextTransfer ==
    \/ TransferAgain
    \/ ScanStep
    \/ SendErase
    \/ RecvEraseAck
    \/ BlockStep
    \/ ChunkStep
    \/ PacketStep
    \/ RecvBufAck
    \/ RecvEndAck

SpecTransfer == InitTransfer /\ [][NextTransfer]_vars

----------------------------------------------------------------------------
(* encode_instruction on its own: the call and its return *)

\* longest varying part of a generated template
MaxCore == 2

\* characters of the varying part: '0', '1', 'a', 'b', 'c', and the
\* neighbours of the alphabet, '`' and '{'
EncChars == {ord_0, ord_1, ord_a, ord_a + 1, ord_a + 2, ord_a - 1, ord_z + 1}

RECURSIVE SeqsUpTo(_, _)
SeqsUpTo(S, n) ==
    IF n = 0 THEN {<<>>}
    ELSE LET shorter == SeqsUpTo(S, n - 1)
         IN  shorter \cup {Append(s, c) : s \in {t \in shorter : Len(t) = n - 1}, c \in S}

\* literal bits around the varying part: '1' and '0' in turn
Literal(from, to) == [i \in 1..(to - from + 1) |-> ord_0 + ((from + i - 1) % 2)]

\* a template of length len (the varying part alone when it would not fit):
\* six literal bits, the varying part, literal bits
Template(core, len) ==
    IF len < 6 + Len(core) THEN core
    ELSE Literal(1, 6) \o core \o Literal(7 + Len(core), len)

EncLens == {0, 8, 12, 16, 32}

EncTemplates ==
    {Template(core, len) : core \in SeqsUpTo(EncChars, MaxCore), len \in EncLens}
        \cup {movw_r0, movt_r0, mov_sp_r0, bx_r0}

EncFields ==
    {None} \cup {Some(v) : v \in {0, 1, 2, 3, 5, 6, 8, 256, 2049, 4096, 43690, 65535, 65536}}

EncOrders == {"<", ">"}

InitEncode ==
    /\ enc \in [state : {"called"}, template : EncTemplates, field : EncFields,
                endianness : EncOrders, result : {Raise("")}]
    /\ _map = [m \in {} |-> ""]
    /\ kit = "none"
    /\ BootStart = 0
    /\ EraseBlock = 0
    /\ blocks = <<>>
    /\ dirty = <<>>
    /\ blockaddr = <<>>
    /\ _ptr = 0
    /\ call = NoCall
    /\ count = NoCount
    /\ xfer = XferIdle
    /\ sent = <<>>

Encode ==
    /\ enc.state = "called"
    /\ enc' = [enc EXCEPT !.state = "returned",
                          !.result = encode_instruction(enc.template, enc.field,
                                                        enc.endianness)]
    /\ UNCHANGED kitVars

SpecEncode == InitEncode /\ [][Encode]_vars

----------------------------------------------------------------------------
(* Properties of encode_instruction (SpecEncode) *)

Returned == enc.state = "returned"

IsLetter(c) == c \in 97..122

TemplateChars == {48, 49} \cup 97..122

\* a template encode_instruction is specified for
ValidTemplate(t) ==
    /\ Len(t) \in {8, 16, 32}
    /\ \A p \in DOMAIN t : t[p] \in TemplateChars

\* the letters used, 'a' = 0
LettersOf(t) == {t[p] - 97 : p \in {q \in DOMAIN t : IsLetter(t[q])}}

\* k = 1 + highest letter used - 'a'
FieldWidth(t) ==
    IF LettersOf(t) = {} THEN 0
    ELSE 1 + CHOOSE m \in LettersOf(t) : \A x \in LettersOf(t) : x <= m

FieldFits(t, f) == FieldWidth(t) = 0 \/ (f # None /\ f[1] < Pow2(FieldWidth(t)))

\* bit i of the k-bit field, counted from the most significant
FieldBit(t, f, i) == (f[1] \div Pow2(FieldWidth(t) - 1 - i)) % 2

\* the bit at template position p (1 = most significant) of the bytes read
\* as an unsigned integer in the given byte order
OutBit(bytes, order, p) ==
    LET be == IF order = ">" THEN bytes
              ELSE [i \in DOMAIN bytes |-> bytes[Len(bytes) + 1 - i]]
    IN  (be[((p - 1) \div 8) + 1] \div Pow2(7 - ((p - 1) % 8))) % 2

RECURSIVE SumOver(_, _)
SumOver(S, f) ==
    IF S = {} THEN 0
    ELSE LET x == CHOOSE y \in S : TRUE IN f[x] + SumOver(S \ {x}, f)

\* the field as the letter positions of the output give it back
ReadBack(t, bytes, order) ==
    LET bit == [i \in LettersOf(t) |->
                  OutBit(bytes, order, CHOOSE p \in DOMAIN t : t[p] = 97 + i)
                    * Pow2(FieldWidth(t) - 1 - i)]
    IN  SumOver(LettersOf(t), bit)

\* the field with the bits of unused letters cleared
UsedBits(t, f) ==
    LET bit == [i \in LettersOf(t) |->
                  FieldBit(t, f, i) * Pow2(FieldWidth(t) - 1 - i)]
    IN  SumOver(LettersOf(t), bit)

\* every position of the output holds the template's literal bit or the
\* field bit of its letter
BitsPlaced ==
    (Returned /\ ValidTemplate(enc.template) /\ FieldFits(enc.template, enc.field))
        => /\ enc.result.ok
           /\ Len(enc.result.bytes) = Len(enc.template) \div 8
           /\ \A p \in DOMAIN enc.template :
                 OutBit(enc.result.bytes, enc.endianness, p) =
                    IF IsLetter(enc.template[p])
                    THEN FieldBit(enc.template, enc.field, enc.template[p] - 97)
                    ELSE enc.template[p] - 48

HasField ==
    /\ Returned
    /\ ValidTemplate(enc.template)
    /\ FieldWidth(enc.template) > 0
    /\ FieldFits(enc.template, enc.field)

\* C8 as stated: the bits are placed, and for every valid template and every
\* field value that fits, reading the letter positions back gives the field
\* value.
C8_RoundTripAnyTemplate ==
    /\ BitsPlaced
    /\ HasField =>
          ReadBack(enc.template, enc.result.bytes, enc.endianness) = enc.field[1]

\* C8: for every valid template and every field value that fits in k bits,
\* each output position holds the template's literal bit or bit i of the
\* field ('a' = most significant); reading the letter positions back gives
\* the field bits of the letters the template uses, which is the field value
\* whenever the template uses every letter from 'a' to its highest one.
C8_RoundTrip ==
    /\ BitsPlaced
    /\ HasField =>
          /\ ReadBack(enc.template, enc.result.bytes, enc.endianness) =
                UsedBits(enc.template, enc.field)
          /\ LettersOf(enc.template) = 0..(FieldWidth(enc.template) - 1) =>
                ReadBack(enc.template, enc.result.bytes, enc.endianness) = enc.field[1]

\* movw r0, #0xAAAA encoded: sixteen letters, scattered, all of them used
C8_Witness ==
    /\ HasField
    /\ enc.template = movw_r0
    /\ enc.field = Some(43690)
    /\ enc.result.ok
    /\ ReadBack(enc.template, enc.result.bytes, enc.endianness) = 43690

\* C9: a template with a character outside {0,1,a-z}, or of a length other
\* than 8, 16 and 32, or with a letter while no field is supplied, is
\* rejected: encode_instruction raises and returns no bytes.
C9_Rejects ==
    (/\ Returned
     /\ \/ \E p \in DOMAIN enc.template : enc.template[p] \notin TemplateChars
        \/ Len(enc.template) \notin {8, 16, 32}
        \/ (LettersOf(enc.template) # {} /\ enc.field = None))
        => (~enc.result.ok /\ enc.result.err # "" /\ enc.result.bytes = <<>>)

\* a 12-character template of allowed characters, its field supplied, rejected
C9_Witness ==
    /\ Returned
    /\ Len(enc.template) = 12
    /\ \A p \in DOMAIN enc.template : enc.template[p] \in TemplateChars
    /\ LettersOf(enc.template) # {}
    /\ enc.field # None
    /\ ~enc.result.ok

----------------------------------------------------------------------------
(* Properties of write (Spec) *)

\* the step is a call of write
WriteStep == call'.op = "write" /\ count'.write = count.write + 1

\* the physical address a write call was given
Phys(c) == c.addr - flash_mem_offset(kit)

\* where the modelled Flash ends
FlashEnd == blockaddr[Len(blockaddr)]

\* block i (1 = first) holds an address of [a, a + n)
Overlaps(i, a, n) == a < blockaddr[i] + blocks[i].len /\ a + n > blockaddr[i]

Overlapped(a, n) == {i \in DOMAIN blocks : Overlaps(i, a, n)}

\* [a, a + Len(d)) lies in the Flash and in two or more blocks
Spans(a, d) ==
    /\ a >= 0
    /\ a + Len(d) <= FlashEnd
    /\ Cardinality(Overlapped(a, Len(d))) >= 2

\* the byte at offset j of block i once d is laid over the Flash at a
Overlay(i, j, a, d) ==
    LET x == blockaddr[i] + j
    IN  IF a <= x /\ x < a + Len(d) THEN d[x - a + 1] ELSE ByteAt(blocks[i], j)

\* the offsets of block i at which its old or new content may differ from
\* the fill byte
Offsets(i, new, a, d) ==
    DOMAIN blocks[i].ov \cup DOMAIN new.ov
        \cup {x - blockaddr[i] :
                x \in {y \in a..(a + Len(d) - 1) :
                          blockaddr[i] <= y /\ y < blockaddr[i] + blocks[i].len}}

\* C2: a write whose range spans two or more adjacent blocks succeeds, leaves
\* every overlapped block dirty, puts each byte of data at its address (so
\* each block holds the part of data in its range, at the right offsets),
\* keeps every other byte and every block's length, and makes no block
\* outside the range dirty.
C2_WriteSplit ==
    [][(WriteStep /\ Spans(Phys(call'), call'.data)) =>
          /\ call'.err = ""
          /\ Len(blocks') = Len(blocks)
          /\ blockaddr' = blockaddr
          /\ \A i \in DOMAIN blocks :
                /\ blocks'[i].len = blocks[i].len
                /\ blocks'[i].fill = blocks[i].fill
                /\ \A j \in Offsets(i, blocks'[i], Phys(call'), call'.data) :
                      ByteAt(blocks'[i], j) = Overlay(i, j, Phys(call'), call'.data)
                /\ dirty'[i] = (dirty[i] \/ Overlaps(i, Phys(call'), Len(call'.data)))
      ]_vars

\* 66 bytes written at 63 into 64-byte blocks: one byte in the first block,
\* the second block full, one byte in the third
C2_Witness ==
    /\ call.op = "write"
    /\ call.err = ""
    /\ count.write = 1
    /\ BootStart = 320
    /\ Phys(call) = 63
    /\ Len(call.data) = 66
    /\ dirty = <<TRUE, TRUE, TRUE, FALSE, FALSE>>
    /\ ByteAt(blocks[1], 62) = block_init
    /\ ByteAt(blocks[1], 63) = call.data[1]
    /\ ByteAt(blocks[2], 0) = call.data[2]
    /\ ByteAt(blocks[2], 63) = call.data[65]
    /\ ByteAt(blocks[3], 0) = call.data[66]
    /\ ByteAt(blocks[3], 1) = block_init

\* C3: a write whose physical start address is at BootStart or beyond, or
\* below 0, raises IndexError whatever the write cursor and the data (empty
\* data included), and leaves blocks, dirty and the cursor as they were.
C3_OutOfRange ==
    [][(WriteStep /\ (Phys(call') >= BootStart \/ Phys(call') < 0)) =>
          /\ call'.err = "IndexError"
          /\ blocks' = blocks
          /\ dirty' = dirty
          /\ blockaddr' = blockaddr
          /\ _ptr' = _ptr
      ]_vars

\* an empty write at BootStart refused with the cursor on a later block
C3_Witness ==
    /\ call.op = "write"
    /\ call.err = "IndexError"
    /\ Phys(call) = BootStart
    /\ call.data = <<>>
    /\ _ptr > 0
    /\ \E i \in DOMAIN dirty : dirty[i]

ConstantGeometry == {"DevKitModel", "ARMDevKit"}

\* C4: for the constant-geometry models, after construction from any
\* BootStart and EraseBlock and after any calls of write, the lengths of the
\* blocks sum to BootStart, and every block has the length it was created
\* with (EraseBlock).
C4_SumIsBootStart ==
    kit \in ConstantGeometry =>
        /\ SumLen(blocks) = BootStart
        /\ \A i \in DOMAIN blocks : blocks[i].len = EraseBlock

\* the block holds a byte that is not the erased fill value
HasNonFF(b) ==
    \/ \E j \in DOMAIN b.ov : b.ov[j] # block_init
    \/ (b.fill # block_init /\ Cardinality(DOMAIN b.ov) < b.len)

OnlyWrites == kit # "none" /\ count.fix_bootloader = 0

\* C5 as stated: after any calls of write, whatever their data, every dirty
\* block holds a byte other than 0xFF.
C5_DirtyDiffersAnyData ==
    OnlyWrites => \A i \in DOMAIN blocks : dirty[i] => HasNonFF(blocks[i])

\* C5: after any calls of write whose data is not empty and holds no 0xFF
\* byte (any addresses), every dirty block holds a byte other than 0xFF.
C5_DirtyDiffers ==
    (OnlyWrites /\ ~count.blank) =>
        \A i \in DOMAIN blocks : dirty[i] => HasNonFF(blocks[i])

\* two writes of such data that left three blocks dirty
C5_Witness ==
    /\ OnlyWrites
    /\ ~count.blank
    /\ count.write = 2
    /\ Cardinality({i \in DOMAIN dirty : dirty[i]}) >= 3
    /\ \A i \in DOMAIN blocks : dirty[i] => HasNonFF(blocks[i])

----------------------------------------------------------------------------
(* Properties of fix_bootloader (Spec) *)

\* the step is a call of fix_bootloader
FixStep == call'.op = "fix_bootloader" /\ count'.fix_bootloader = count.fix_bootloader + 1

\* the four bytes of a value below 2^31, least significant first
LE32(v) == <<v % 256, (v \div 256) % 256, (v \div 65536) % 256, v \div 16777216>>

\* C6: after fix_bootloader on an ARMDevKit or a subclass of it, bytes [4,8)
\* of block 0 are BootStart | 1 as a little-endian 32-bit word, whatever
\* reset address was there before.
C6_ResetVector ==
    (call.op = "fix_bootloader" /\ kit \in ARMClasses /\ Len(blocks) >= 1)
        => BSlice(blocks[1], 4, 8) = LE32(IF BootStart % 2 = 1 THEN BootStart
                                          ELSE BootStart + 1)

\* the vectors 0x20001000, 0x08000100 were staged; the second now reads
\* 0x141 = 320 | 1
C6_Witness ==
    /\ call.op = "fix_bootloader"
    /\ call.err = ""
    /\ kit = "ARMDevKit"
    /\ BootStart = 320
    /\ BSlice(blocks[1], 0, 8) = <<0, 16, 0, 32, 65, 1, 0, 0>>

\* the byte at physical address x of a Flash image
FlashByte(bl, ba, x) ==
    LET i == CHOOSE k \in DOMAIN bl : ba[k] <= x /\ x < ba[k] + bl[k].len
    IN  ByteAt(bl[i], x - ba[i])

\* the halfword at offset k of the stub, little-endian
StubHalf(bl, ba, k) ==
    FlashByte(bl, ba, BootStart - 20 + k) + 256 * FlashByte(bl, ba, BootStart - 19 + k)

\* Thumb-2 MOVW/MOVT (T3/T1): 11110 i 10 x100 imm4 | 0 imm3 Rd imm8, with x = 0
\* for movw and 1 for movt; the halfwords are those of a move into r0
IsMov(hw1, hw2, top) ==
    /\ hw1 \div 2048 = 30
    /\ (hw1 \div 16) % 64 = (IF top THEN 44 ELSE 36)
    /\ hw2 \div 32768 = 0
    /\ (hw2 \div 256) % 16 = 0

\* imm16 = imm4:i:imm3:imm8
Imm16(hw1, hw2) ==
    (hw1 % 16) * 4096 + ((hw1 \div 1024) % 2) * 2048
        + ((hw2 \div 4096) % 8) * 256 + (hw2 % 256)

\* the stub at offset k loads the 32-bit value hi:lo into r0
LoadsR0(bl, ba, k, lo, hi) ==
    /\ IsMov(StubHalf(bl, ba, k), StubHalf(bl, ba, k + 2), FALSE)
    /\ Imm16(StubHalf(bl, ba, k), StubHalf(bl, ba, k + 2)) = lo
    /\ IsMov(StubHalf(bl, ba, k + 4), StubHalf(bl, ba, k + 6), TRUE)
    /\ Imm16(StubHalf(bl, ba, k + 4), StubHalf(bl, ba, k + 6)) = hi

\* the halfword of bytes [k, k+2) of block 0
VectorHalf(bl, k) == ByteAt(bl[1], k) + 256 * ByteAt(bl[1], k + 1)

\* [BootStart-20, BootStart) holds: load sp into r0; mov sp, r0 (0x4685);
\* load reset into r0; bx r0 (0x4700)
IsStub(bl, ba, spLo, spHi, resetLo, resetHi) ==
    /\ LoadsR0(bl, ba, 0, spLo, spHi)
    /\ StubHalf(bl, ba, 8) = 18053
    /\ LoadsR0(bl, ba, 10, resetLo, resetHi)
    /\ StubHalf(bl, ba, 18) = 18176

\* C7: when fix_bootloader returns, the 20 bytes at [BootStart-20, BootStart)
\* are the stub: a movw/movt pair that reassembles to the stack pointer block
\* 0 held before, 'mov sp, r0', a movw/movt pair that reassembles to the
\* reset address block 0 held before with bit 0 set, 'bx r0'; the block
\* holding the stub is dirty.
C7_Stub ==
    [][(FixStep /\ kit \in ARMClasses /\ call'.err = "") =>
          /\ IsStub(blocks', blockaddr', VectorHalf(blocks, 0), VectorHalf(blocks, 2),
                    IF VectorHalf(blocks, 4) % 2 = 1 THEN VectorHalf(blocks, 4)
                    ELSE VectorHalf(blocks, 4) + 1,
                    VectorHalf(blocks, 6))
          /\ \A i \in DOMAIN blocks' :
                (blockaddr'[i] <= BootStart - 20
                    /\ BootStart - 20 < blockaddr'[i] + blocks'[i].len) => dirty'[i]
      ]_vars

\* the stub for the staged vectors 0x20001000 and 0x08000100 (even: the
\* stub jumps to 0x08000101)
C7_Witness ==
    /\ call.op = "fix_bootloader"
    /\ call.err = ""
    /\ kit = "ARMDevKit"
    /\ IsStub(blocks, blockaddr, 4096, 8192, 257, 2048)
    /\ dirty[Len(dirty)]

----------------------------------------------------------------------------
(* Properties of factory (Spec) *)

STM32List == {"STM32L1XX", "STM32F1XX", "STM32F2XX", "STM32F4XX"}

AllSupported ==
    {"ARM", "STELLARIS_M3", "STELLARIS_M4", "STELLARIS"} \cup STM32List

\* C10: factory with an McuType of the STM32 list, where it returns, returns
\* an STM32DevKit of 11 blocks of 16K, 16K, 16K, 16K, 64K and six times 128K,
\* summing to BootStart, all clean and all 0xFF, and it returns when
\* BootStart is that sum and EraseBlock a multiple of the HID packet size;
\* factory with an McuType no class supports raises and leaves no kit.
C10_Factory ==
    call.op = "factory" =>
        /\ (call.bootinfo.McuType \in STM32List /\ call.err = "") =>
              /\ kit = "STM32DevKit"
              /\ [i \in DOMAIN blocks |-> blocks[i].len] =
                    <<16384, 16384, 16384, 16384, 65536,
                      131072, 131072, 131072, 131072, 131072, 131072>>
              /\ SumLen(blocks) = BootStart
              /\ BootStart = call.bootinfo.BootStart
              /\ dirty = [i \in 1..11 |-> FALSE]
              /\ \A i \in DOMAIN blocks :
                    blocks[i].fill = 255 /\ DOMAIN blocks[i].ov = {}
        /\ (/\ call.bootinfo.McuType \in STM32List
            /\ call.bootinfo.BootStart = 917504
            /\ call.bootinfo.EraseBlock % HID_buf_size = 0) => call.err = ""
        /\ call.bootinfo.McuType \notin AllSupported =>
              /\ call.err # ""
              /\ kit = "none"
              /\ blocks = <<>>

\* an STM32F4XX kit returned by factory
C10_Witness ==
    /\ call.op = "factory"
    /\ call.err = ""
    /\ call.bootinfo.McuType = "STM32F4XX"
    /\ kit = "STM32DevKit"
    /\ Len(blocks) = 11

----------------------------------------------------------------------------
(* Properties of transfer (Spec) *)

\* the maximal runs [s, e) of consecutive dirty blocks, blocks counted from 0
IsRun(d, s, e) ==
    /\ s < e
    /\ \A i \in (s + 1)..e : d[i]
    /\ (s = 0 \/ ~d[s])
    /\ (e = Len(d) \/ ~d[e + 1])

RunSet(d) ==
    {r \in (0..Len(d)) \X (0..Len(d)) : IsRun(d, r[1], r[2])}

Ascending(cs) == \A k \in 1..(Len(cs) - 1) : cs[k][2] < cs[k + 1][1]

IsErase(m) == m.kind = "command" /\ m.cmd = "ERASE"

Erases == SelectSeq(sent, IsErase)

\* C1: transfer calls _blk_interval once for each maximal run [start, end)
\* of dirty blocks (a run ending at the last block included), with those
\* bounds, in ascending order, and for no other interval; each call sends
\* one ERASE, for end - start blocks.  While transfer runs the calls made
\* are runs, in ascending order; when it has returned they are all the runs.
C1_Runs ==
    xfer.pc # "idle" =>
        /\ Range(xfer.calls) \subseteq RunSet(dirty)
        /\ Ascending(xfer.calls)
        /\ Len(Erases) = (IF xfer.pc = "erase" THEN Len(xfer.calls) - 1
                          ELSE Len(xfer.calls))
        /\ \A k \in DOMAIN Erases :
              /\ Erases[k].count = xfer.calls[k][2] - xfer.calls[k][1]
              /\ Erases[k].addr = blockaddr[xfer.calls[k][2]]
        /\ xfer.pc = "done" =>
              /\ Range(xfer.calls) = RunSet(dirty)
              /\ Len(xfer.calls) = Cardinality(RunSet(dirty))

\* dirty = [T,F,T,F,T]: three runs, the last ending at the last block
C1_Witness ==
    /\ xfer.pc = "done"
    /\ dirty = <<TRUE, FALSE, TRUE, FALSE, TRUE>>
    /\ xfer.calls = <<<<0, 1>>, <<2, 3>>, <<4, 5>>>>
    /\ Len(Erases) = 3

----------------------------------------------------------------------------
(* _blk_interval: the ERASE command and its acknowledgement *)

\* the ERASE commands among the first k messages sent
ErasesUpTo(k) == {i \in 1..k : IsErase(sent[i])}

\* an acknowledgement of cmd was received, and expected, when k messages
\* had been sent
Acked(k, cmd) ==
    \E a \in DOMAIN xfer.acks :
        xfer.acks[a] = [got |-> cmd, want |-> cmd, at |-> k]

\* C11: each call of _blk_interval for a run [start, end) sends one ERASE
\* command, the first message of the call, for the address
\* _erase_addr(end - 1) and end - start blocks; nothing is sent behind it,
\* no WRITE command and no data packet, before an acknowledgement of ERASE
\* has been received for it.
C11_EraseAcked ==
    /\ Cardinality(ErasesUpTo(Len(sent))) =
          (IF xfer.pc = "erase" THEN Len(xfer.calls) - 1 ELSE Len(xfer.calls))
    /\ sent # <<>> => IsErase(sent[1])
    /\ \A k \in DOMAIN sent :
          IsErase(sent[k]) =>
              LET run == xfer.calls[Cardinality(ErasesUpTo(k))]
              IN  /\ sent[k] = Command("ERASE", _erase_addr(Obj, run[2] - 1),
                                       run[2] - run[1])
                  /\ k < Len(sent) => Acked(k, "ERASE")

\* the second run's ERASE has been acknowledged and data of the run sent
C11_Witness ==
    /\ Len(xfer.calls) = 2
    /\ Cardinality(ErasesUpTo(Len(sent))) = 2
    /\ sent[Len(sent)].kind = "data"
    /\ Acked(Len(sent) - 2, "ERASE")

----------------------------------------------------------------------------
(* _blk_interval: the WRITE commands and the data behind them *)

IsWrite(m) == m.kind = "command" /\ m.cmd = "WRITE"

\* positions of the WRITE commands in what was sent
Writes == {k \in DOMAIN sent : IsWrite(sent[k])}

\* position of the first command behind position k, Len(sent) + 1 if none
NextCommand(k) ==
    LET cs == {j \in (k + 1)..Len(sent) : sent[j].kind = "command"}
    IN  IF cs = {} THEN Len(sent) + 1
        ELSE CHOOSE j \in cs : \A i \in cs : j <= i

\* p followed by q
Cat(p, q) ==
    [len  |-> p.len + q.len,
     fill |-> q.fill,
     ov   |-> [i \in DOMAIN p.ov \cup {j + p.len : j \in DOMAIN q.ov} |->
                  IF i \in DOMAIN p.ov THEN p.ov[i] ELSE q.ov[i - p.len]]]

\* the packets at positions lo..hi of sent, one after the other
RECURSIVE PacketsCat(_, _)
PacketsCat(lo, hi) ==
    IF lo > hi THEN bytearray(block_init, 0)
    ELSE IF lo = hi THEN sent[lo].pkt
    ELSE LET mid == (lo + hi) \div 2
         IN  Cat(PacketsCat(lo, mid), PacketsCat(mid + 1, hi))

\* those of the WRITE commands at the positions W that are into block i
\* (from 1)
WritesInto(W, i) ==
    {k \in W : /\ blockaddr[i] <= sent[k].addr
               /\ sent[k].addr < blockaddr[i] + blocks[i].len}

\* the blocks (from 1) an ERASE command covers
Erased(m) ==
    LET last == CHOOSE j \in 1..Len(blocks) : blockaddr[j] = m.addr
    IN  (last - m.count + 1)..last

\* C12: when transfer has returned, the WRITE commands into each dirty block
\* split all of the block into parts of at most _write_max bytes that follow
\* each other without overlap, each command giving the address
\* blockaddr[blk] + offset and the length of its part, and the data packets
\* sent behind a command are, one after the other, the bytes of its part.
\* At any time the addresses of the WRITE commands sent increase (blocks in
\* the order of their addresses, parts in the order of their offsets), and
\* no block that is not dirty is erased or written.
C12_WritePartition ==
    LET W == Writes
        E == UNION {Erased(sent[k]) : k \in ErasesUpTo(Len(sent))}
    IN  /\ \A k, l \in W : k < l => sent[k].addr < sent[l].addr
        /\ \A i \in DOMAIN blocks :
              ~dirty[i] => WritesInto(W, i) = {} /\ i \notin E
        /\ \A k \in W :
              /\ \E i \in DOMAIN blocks : k \in WritesInto(W, i)
              /\ sent[k].count \in 1.._write_max
        /\ xfer.pc = "done" =>
              \A i \in DOMAIN blocks :
                  dirty[i] =>
                      LET Wi  == WritesInto(W, i)
                          off == [k \in Wi |-> sent[k].addr - blockaddr[i]]
                          n   == [k \in Wi |-> sent[k].count]
                      IN  /\ \A k \in Wi :
                                /\ off[k] + n[k] <= blocks[i].len
                                /\ PacketsCat(k + 1, NextCommand(k) - 1) =
                                      BASlice(blocks[i], off[k], off[k] + n[k])
                                /\ \A j \in k + 1..NextCommand(k) - 1 :
                                      sent[j].kind = "data"
                          /\ \A k, l \in Wi : k < l => off[k] + n[k] <= off[l]
                          /\ SumOver(Wi, n) = blocks[i].len

\* a dirty block larger than _write_max, written to, went out in two parts,
\* and a block of another run behind it
C12_Witness ==
    /\ xfer.pc = "done"
    /\ \E i \in DOMAIN blocks :
          /\ dirty[i]
          /\ blocks[i].len > _write_max
          /\ blocks[i].ov # NoBytes
          /\ Cardinality(WritesInto(Writes, i)) = 2
          /\ \E j \in 1..(i - 2) : dirty[j] /\ ~dirty[j + 1]

----------------------------------------------------------------------------
(* _blk_interval: the device buffer *)

\* the bytes of the data packets at positions lo..hi of sent
RECURSIVE PacketsLen(_, _)
PacketsLen(lo, hi) ==
    IF lo > hi THEN 0
    ELSE IF lo = hi THEN (IF sent[lo].kind = "data" THEN sent[lo].pkt.len ELSE 0)
    ELSE LET mid == (lo + hi) \div 2
         IN  PacketsLen(lo, mid) + PacketsLen(mid + 1, hi)

\* the bytes of data sent since the last acknowledgement was received
Unacked ==
    LET from == IF xfer.acks = <<>> THEN 0 ELSE xfer.acks[Len(xfer.acks)].at
    IN  PacketsLen(from + 1, Len(sent))

InChunk == xfer.pc \in {"packet", "buf_ack", "end_ack"}

Multiple(L, B) ==
    IF B = 0 THEN L = 0 ELSE L % (IF B < 0 THEN 0 - B ELSE B) = 0

----------------------------------------------------------------------------
(* expect: an acknowledgement of the wrong command *)

Mismatched(a) == xfer.acks[a].got # xfer.acks[a].want

\* C15: an acknowledgement that is not of the command expected, be it for
\* ERASE, for a full buffer or for the end of a WRITE, makes transfer raise
\* ProtocolMismatch there: it is the last acknowledgement taken (nothing is
\* retried), no command and no packet is sent behind it, and no further call
\* of _blk_interval is made; transfer raises for no other reason.
C15_Mismatch ==
    /\ \A a \in DOMAIN xfer.acks :
          Mismatched(a) =>
              /\ xfer.pc = "raised"
              /\ call.err = "ProtocolMismatch"
              /\ a = Len(xfer.acks)
              /\ xfer.acks[a].at = Len(sent)
              /\ Len(xfer.calls) = Cardinality(ErasesUpTo(Len(sent)))
    /\ xfer.pc = "raised" => xfer.acks # <<>> /\ Mismatched(Len(xfer.acks))

\* transfer raised on the acknowledgement of a full buffer, with a run of
\* dirty blocks left that _blk_interval was not called for
C15_Witness ==
    /\ xfer.pc = "raised"
    /\ xfer.acks[Len(xfer.acks)] =
          [got |-> "ERASE", want |-> "WRITE", at |-> Len(sent)]
    /\ sent[Len(sent)].kind = "data"
    /\ xfer.dev_buf_rem = 0
    /\ Len(xfer.calls) < Cardinality(RunSet(dirty))

----------------------------------------------------------------------------
(* transfer: what it leaves alone *)

\* C16: no step of transfer changes blocks, dirty (the flags are not
\* cleared), blockaddr or _ptr, and a transfer called again on the object
\* sends, message by message, the commands and packets the call before
\* sent: each message it sends is the one the earlier call sent at that
\* position, and when it returns it has sent all of them.
C16_TransferFrame ==
    [][/\ xfer'.pc # "idle" => UNCHANGED <<blocks, dirty, blockaddr, _ptr>>
       /\ xfer'.round >= 2 =>
             /\ Len(sent') <= Len(xfer'.prev)
             /\ sent' # <<>> => sent'[Len(sent')] = xfer'.prev[Len(sent')]
             /\ xfer'.pc = "done" => sent' = xfer'.prev]_vars

\* the second transfer has returned, having sent again the ERASE and WRITE
\* commands and the packets of the first; the blocks are still dirty
C16_Witness ==
    /\ xfer.round = 2
    /\ xfer.pc = "done"
    /\ sent = xfer.prev
    /\ Cardinality(ErasesUpTo(Len(sent))) = 2
    /\ \E i \in DOMAIN dirty : dirty[i]

----------------------------------------------------------------------------
(* dirty and the bytes written *)

\* a byte of [a, a + n) is written into block i (from 1) by _write_phy(a, .)
\* with n bytes of data: the search finds a block for a, and the block holds
\* an address of the range
WrittenAt(i, a, n) == n > 0 /\ 0 <= a /\ a < FlashEnd /\ Overlaps(i, a, n)

\* the step writes a byte into block i (from 1): a write its data, and
\* fix_bootloader of an ARM kit the reset vector in block 0 and the program
\* below BootStart
WrittenBy(i) ==
    IF call'.op = "write"
    THEN WrittenAt(i, Phys(call'), Len(call'.data))
    ELSE /\ kit \in ARMClasses
         /\ i = 1 \/ WrittenAt(i, BootStart - ProgramLen, ProgramLen)

\* C17: with every write and fix_bootloader call dirty[i] becomes true
\* exactly for the blocks a byte was written into, so that dirty[i] tells
\* whether a byte of block i was written since construction; in particular a
\* block whose content a call changed, the first block with the reset vector
\* included, is dirty.
C17_DirtyIffWritten ==
    [][(WriteStep \/ FixStep) =>
          \A i \in DOMAIN blocks :
              /\ blocks'[i] # blocks[i] => dirty'[i]
              /\ dirty'[i] = (dirty[i] \/ WrittenBy(i))
      ]_vars

----------------------------------------------------------------------------
(* _ptr: the block the search starts at *)

\* the object with the cursor on block p
At(p) == [Obj EXCEPT !.ptr = p]

\* the results of two calls agree on the exception, blocks and dirty
SameOutcome(r, q) ==
    /\ r.err = q.err
    /\ r.obj.blocks = q.obj.blocks
    /\ r.obj.dirty = q.obj.dirty

\* the search of lines 92-103 for addr, started at block p instead of _ptr,
\* ends, and finds the same block or fails as well
SameSearch(p, addr) ==
    LET f == FindBlock(At(p), p, addr)
        g == FindBlock(Obj, _ptr, addr)
    IN  f.ok = g.ok /\ (f.ok => f.blk = g.blk)

\* the first and the last block as cursors, but for the one the cursor is on
Ends == ({0, Len(blocks) - 1} \cap 0..(Len(blocks) - 1)) \ {_ptr}

\* the outcome the step had
Outcome == [err |-> call'.err, obj |-> [blocks |-> blocks', dirty |-> dirty']]

\* the write or fix_bootloader call of the step, had the cursor been on
\* another block: from every block the search of _write_phy ends with the
\* result it had in the step (line 104 assigns _ptr before anything else
\* reads it, so the cursor acts through the search alone), and the call made
\* from the first and from the last block yields the exception, blocks and
\* dirty the step did
CursorIndependent ==
    /\ WriteStep =>
          /\ \A p \in 0..(Len(blocks) - 1) \ {_ptr} : SameSearch(p, Phys(call'))
          /\ \A p \in Ends :
                SameOutcome(write(kit, At(p), call'.addr, call'.data), Outcome)
    /\ (FixStep /\ kit \in ARMClasses) =>
          /\ \A p \in 0..(Len(blocks) - 1) \ {_ptr} :
                SameSearch(p, BootStart - ProgramLen)
          /\ \A p \in Ends :
                SameOutcome(fix_bootloader(kit, At(p), BootStart), Outcome)

\* C18 as stated: after any operation on any devkit object _ptr is an index
\* of a block, 0 <= _ptr < len(blocks), and the outcome of a write on
\* blocks and dirty, or its exception, is the same for every cursor.
C18_CursorHintAnyKit ==
    [][/\ kit' # "none" => 0 <= _ptr' /\ _ptr' < Len(blocks')
       /\ CursorIndependent]_vars

\* C18, for objects that have a block: after any operation _ptr is an index
\* of a block, 0 <= _ptr < len(blocks); the search from any cursor ends,
\* and the outcome of a write (and of fix_bootloader's write) on blocks and
\* dirty, or its exception, is the same for every cursor.
C18_CursorHint ==
    [][/\ (kit' # "none" /\ Len(blocks') >= 1) =>
             0 <= _ptr' /\ _ptr' < Len(blocks')
       /\ CursorIndependent]_vars

\* a second write found block 0 searching down from the last block, where
\* the first write had left the cursor
C18_Witness ==
    /\ call.op = "write"
    /\ call.err = ""
    /\ count.write = 2
    /\ Len(blocks) = 5
    /\ _ptr = 0
    /\ dirty = <<TRUE, FALSE, FALSE, FALSE, TRUE>>
    /\ blocks[5].ov # NoBytes

----------------------------------------------------------------------------
(* encode_instruction: a field wider than the template's letters *)

\* C19: encode_instruction raises whenever the field supplied does not fit
\* in k bits, k = 1 + highest letter used - 'a'; it returns no bytes made
\* from a part of the field.
C19_FieldOverflow ==
    (/\ Returned
     /\ \A p \in DOMAIN enc.template : enc.template[p] \in TemplateChars
     /\ FieldWidth(enc.template) > 0
     /\ enc.field # None
     /\ enc.field[1] >= Pow2(FieldWidth(enc.template)))
        => (~enc.result.ok /\ enc.result.bytes = <<>>)

----------------------------------------------------------------------------
(* write: data that runs past the last block *)

\* C20: a write that starts in a block and whose data runs past the end of
\* the last block (so to BootStart or beyond) raises IndexError, but only
\* when the part of the data that lies in the blocks has been copied to its
\* addresses, the blocks it lies in have been marked dirty and the cursor
\* has moved to the last block; the rest of the data is written nowhere:
\* every other byte and the length of every block are as before.
C20_PartialWrite ==
    [][(/\ WriteStep
        /\ 0 <= Phys(call')
        /\ Phys(call') < FlashEnd
        /\ Phys(call') + Len(call'.data) > FlashEnd) =>
          /\ call'.err = "IndexError"
          /\ Len(blocks') = Len(blocks)
          /\ blockaddr' = blockaddr
          /\ _ptr' = Len(blocks) - 1
          /\ \A i \in DOMAIN blocks :
                /\ blocks'[i].len = blocks[i].len
                /\ blocks'[i].fill = blocks[i].fill
                /\ \A j \in Offsets(i, blocks'[i], Phys(call'), call'.data) :
                      ByteAt(blocks'[i], j) = Overlay(i, j, Phys(call'), call'.data)
                /\ dirty'[i] = (dirty[i] \/ Overlaps(i, Phys(call'), Len(call'.data)))
      ]_vars

\* 66 bytes written at 63 into two blocks of 64 bytes: one byte in the first
\* block, the second block full, the last byte refused
C20_Witness ==
    /\ call.op = "write"
    /\ call.err = "IndexError"
    /\ count.write = 1
    /\ FlashEnd = 128
    /\ BootStart = 128
    /\ Phys(call) = 63
    /\ Len(call.data) = 66
    /\ dirty = <<TRUE, TRUE>>
    /\ _ptr = 1
    /\ ByteAt(blocks[1], 63) = call.data[1]
    /\ ByteAt(blocks[2], 63) = call.data[65]
    /\ blocks[2].len = 64

====
